---- MODULE Spec2Model ----
(***************************************************************************)
(* Smart home firmware (src/main/app_main.c): the RainMaker write callback *)
(* write_cb and the door sensor task ir_sensor_task, over the two global   *)
(* flags, the task's locals, the LED and buzzer lines and the four         *)
(* RainMaker parameters.                                                   *)
(*                                                                         *)
(* Every statement of the two handlers is an operator from a state record  *)
(* to a state record; a handler is the composition of its statements, in   *)
(* source order.  The record's field `effects` lists, in order, the calls  *)
(* the handler running last has made to the outside (parameter updates,    *)
(* GPIO writes, delays, alerts, diagnostics, log lines).                   *)
(*                                                                         *)
(* Spec and SpecGpioFail run each handler as one step; SpecConc runs the   *)
(* two handlers one source statement per step, interleaved.                *)
(***************************************************************************)
EXTENDS Integers, Sequences, FiniteSets, TLC

VARIABLES
    alarm_enabled,          \* static volatile bool alarm_enabled
    led_state,              \* static volatile bool led_state
    previous_sensor_state,  \* local of ir_sensor_task: -1 unknown, 0 closed, 1 open
    notification_sent,      \* local of ir_sensor_task
    led_level,              \* level of the LED_GPIO line
    buzzer_level,           \* level of the BUZZER_GPIO line
    sink,                   \* RainMaker parameter -> value reported last
    effects,                \* outside calls of the handler that ran last, in order
    ret,                    \* value returned by the last write_cb
    op,                     \* the handler that ran last, with its inputs
    alerts_since_edge,      \* history: raise_alert calls since the last door transition
    alerted_since_arm,      \* history: raise_alert called since the write that armed last
    task_pc,                \* source line of the statement ir_sensor_task runs next
    sensor_reading,         \* local sensor_value of ir_sensor_task: this iteration's reading
    cb_pc,                  \* source line write_cb runs next, 0 when no call is running
    cb_val,                 \* val.val.b of the running write_cb call
    clean,                  \* history: the iteration began with no write running, and
                            \* no statement of write_cb has run since it began
    tick_end_wrong          \* history: some iteration ended with the outputs not
                            \* matching the flags and its reading

vars == <<alarm_enabled, led_state, previous_sensor_state, notification_sent,
          led_level, buzzer_level, sink, effects, ret, op, alerts_since_edge,
          alerted_since_arm, task_pc, sensor_reading, cb_pc, cb_val, clean,
          tick_end_wrong>>

\* the variables that only the statement-by-statement specification moves
conc_vars == <<task_pc, sensor_reading, cb_pc, cb_val, clean, tick_end_wrong>>

----------------------------------------------------------------------------
(* Names and constants of the source *)

LED_GPIO == "LED_GPIO"
BUZZER_GPIO == "BUZZER_GPIO"

ESP_OK == "ESP_OK"
ESP_FAIL == "ESP_FAIL"

HomeLight == "Home Light"
AlarmSystem == "Alarm System"
DoorSensorStatus == "Door Sensor Status"
Power == "Power"
DoorStatus == "Door Status"
AlarmTriggered == "Alarm Triggered"

\* the four externally visible parameters
LightPower == <<HomeLight, Power>>
AlarmPower == <<AlarmSystem, Power>>
door_status_param == <<DoorSensorStatus, DoorStatus>>
alarm_trigger_param == <<DoorSensorStatus, AlarmTriggered>>

Params == {LightPower, AlarmPower, door_status_param, alarm_trigger_param}

BlinkDelayMs == 150
LoopDelayMs == 200

UNKNOWN == -1

\* the (device, parameter) names a write request can carry
DevNames == {HomeLight, AlarmSystem, DoorSensorStatus}
ParamNames == {Power, DoorStatus}

\* history counter's cap
MaxAlerts == 3

----------------------------------------------------------------------------
(* The state as a record, and the calls to the outside *)

State ==
    [alarm_enabled |-> alarm_enabled,
     led_state |-> led_state,
     previous_sensor_state |-> previous_sensor_state,
     notification_sent |-> notification_sent,
     led_level |-> led_level,
     buzzer_level |-> buzzer_level,
     sink |-> sink,
     effects |-> <<>>,
     ret |-> ret,
     alerts_since_edge |-> alerts_since_edge]

Commit(s) ==
    /\ alarm_enabled' = s.alarm_enabled
    /\ led_state' = s.led_state
    /\ previous_sensor_state' = s.previous_sensor_state
    /\ notification_sent' = s.notification_sent
    /\ led_level' = s.led_level
    /\ buzzer_level' = s.buzzer_level
    /\ sink' = s.sink
    /\ effects' = s.effects
    /\ ret' = s.ret
    /\ alerts_since_edge' = s.alerts_since_edge

\* C's conversion of a bool argument to the int level
BoolToLevel(b) == IF b THEN 1 ELSE 0

Emit(s, e) == [s EXCEPT !.effects = Append(@, e)]

\* esp_rmaker_param_update(param, val).  The handles door_status_param and
\* alarm_trigger_param are set (lines 290-293) before the agent and the task
\* start, so the NULL tests that guard their updates always pass.
esp_rmaker_param_update(s, param, val) ==
    Emit([s EXCEPT !.sink[param] = val], <<"push", param, val>>)

\* gpio_set_level(pin, level); ok = FALSE is a call that reports an error and
\* leaves the line as it was
gpio_set_level(s, pin, level, ok) ==
    LET t == Emit(s, <<"gpio", pin, level>>)
    IN  IF ~ok THEN t
        ELSE IF pin = LED_GPIO THEN [t EXCEPT !.led_level = level]
        ELSE [t EXCEPT !.buzzer_level = level]

vTaskDelay(s, ms) == Emit(s, <<"delay", ms>>)

ESP_DIAG_EVENT(s, tag) == Emit(s, <<"diag", tag>>)

ESP_LOGW(s, msg) == Emit(s, <<"logw", msg>>)

esp_rmaker_raise_alert(s) ==
    Emit([s EXCEPT !.alerts_since_edge = @ + 1], <<"alert">>)

----------------------------------------------------------------------------
(* app_driver_init and the declarations: the state when the task starts *)

Init ==
    /\ alarm_enabled = FALSE
    /\ led_state = FALSE
    /\ previous_sensor_state = UNKNOWN
    /\ notification_sent = FALSE
    /\ led_level = 0
    /\ buzzer_level = 0
    /\ sink = [p \in Params |-> IF p = door_status_param THEN "CLOSED" ELSE FALSE]
    /\ effects = <<>>
    /\ ret = ESP_OK
    /\ op = <<"init">>
    /\ alerts_since_edge = 0
    /\ alerted_since_arm = FALSE
    /\ task_pc = 148
    /\ sensor_reading = 0
    /\ cb_pc = 0
    /\ cb_val = FALSE
    /\ clean = FALSE
    /\ tick_end_wrong = FALSE

----------------------------------------------------------------------------
(* app_driver_set_gpio: the result is the state with `ret` set to the value *)
(* returned                                                                 *)

app_driver_set_gpio(s, param_name, value, gpio_ok) ==
    IF param_name = Power
    THEN LET s1 == gpio_set_level(s, LED_GPIO, BoolToLevel(value), gpio_ok)
             s2 == [s1 EXCEPT !.led_state = value]
             s3 == ESP_DIAG_EVENT(s2, "LIGHT_ACTION")
         IN  [s3 EXCEPT !.ret = ESP_OK]
    ELSE [s EXCEPT !.ret = ESP_FAIL]

----------------------------------------------------------------------------
(* write_cb *)

\* lines 101-109
HomeLightHandling(s, param_name, val, gpio_ok) ==
    LET s1 == app_driver_set_gpio(s, param_name, val, gpio_ok)
        s2 == IF s1.ret = ESP_OK
              THEN esp_rmaker_param_update(s1, LightPower, val)
              ELSE ESP_LOGW(s1, "Failed to apply power for Home Light")
    IN  [s2 EXCEPT !.ret = ESP_OK]

\* seeded fault: the disarm reset switches the LED off instead of restoring it
AlarmOffReset_LedOff(s) ==
    LET s1 == esp_rmaker_param_update(s, door_status_param, "CLOSED")
        s2 == esp_rmaker_param_update(s1, alarm_trigger_param, FALSE)
        s3 == gpio_set_level(s2, BUZZER_GPIO, 0, TRUE)
    IN  gpio_set_level(s3, LED_GPIO, 0, TRUE)

\* lines 117-128
AlarmOffReset(s) ==
    LET s1 == esp_rmaker_param_update(s, door_status_param, "CLOSED")
        s2 == esp_rmaker_param_update(s1, alarm_trigger_param, FALSE)
        s3 == gpio_set_level(s2, BUZZER_GPIO, 0, TRUE)
    IN  gpio_set_level(s3, LED_GPIO, BoolToLevel(s3.led_state), TRUE)

\* seeded fault: disarming performs no reset
AlarmSystemHandling_NoReset(s, val) ==
    LET s1 == [s EXCEPT !.alarm_enabled = val]
        s2 == ESP_DIAG_EVENT(s1, "ALARM_ACTION")
        s3 == esp_rmaker_param_update(s2, AlarmPower, val)
    IN  [s3 EXCEPT !.ret = ESP_OK]

\* seeded fault: the reset runs on every alarm write, arming included
AlarmSystemHandling_AlwaysReset(s, val) ==
    LET s1 == [s EXCEPT !.alarm_enabled = val]
        s2 == ESP_DIAG_EVENT(s1, "ALARM_ACTION")
        s3 == AlarmOffReset(s2)
        s4 == esp_rmaker_param_update(s3, AlarmPower, val)
    IN  [s4 EXCEPT !.ret = ESP_OK]

\* lines 112-132
AlarmSystemHandling(s, val) ==
    LET s1 == [s EXCEPT !.alarm_enabled = val]
        s2 == ESP_DIAG_EVENT(s1, "ALARM_ACTION")
        s3 == IF ~s2.alarm_enabled THEN AlarmOffReset(s2) ELSE s2
        s4 == esp_rmaker_param_update(s3, AlarmPower, val)
    IN  [s4 EXCEPT !.ret = ESP_OK]

\* which branch of write_cb a request takes
IsHomeLightPower(dev_name, param_name) == dev_name = HomeLight /\ param_name = Power

\* seeded fault: the alarm branch compares the parameter name only
IsAlarmSystemPower_AnyDevice(dev_name, param_name) == param_name = Power

IsAlarmSystemPower(dev_name, param_name) == dev_name = AlarmSystem /\ param_name = Power

write_cb(s, dev_name, param_name, val, gpio_ok) ==
    IF IsHomeLightPower(dev_name, param_name)
    THEN HomeLightHandling(s, param_name, val, gpio_ok)
    ELSE IF IsAlarmSystemPower(dev_name, param_name)
    THEN AlarmSystemHandling(s, val)
    ELSE [s EXCEPT !.ret = ESP_OK]

----------------------------------------------------------------------------
(* ir_sensor_task: one iteration of its loop *)

\* seeded fault: closing the door leaves notification_sent as it is
DoorStateHandling_NoResetOnClose(s, sensor_value) ==
    IF sensor_value # s.previous_sensor_state
    THEN LET s1 == IF sensor_value = 1
                   THEN LET a == ESP_DIAG_EVENT(s, "DOOR_ACTION")
                            b == esp_rmaker_param_update(a, door_status_param, "OPENED")
                        IN  [b EXCEPT !.notification_sent = FALSE]
                   ELSE LET a == ESP_DIAG_EVENT(s, "DOOR_ACTION")
                            b == esp_rmaker_param_update(a, door_status_param, "CLOSED")
                        IN  esp_rmaker_param_update(b, alarm_trigger_param, FALSE)
         IN  [s1 EXCEPT !.previous_sensor_state = sensor_value,
                        !.alerts_since_edge = 0]
    ELSE s

\* seeded fault: the reading is not stored after a transition
DoorStateHandling_NoStore(s, sensor_value) ==
    IF sensor_value # s.previous_sensor_state
    THEN LET s1 == IF sensor_value = 1
                   THEN LET a == ESP_DIAG_EVENT(s, "DOOR_ACTION")
                            b == esp_rmaker_param_update(a, door_status_param, "OPENED")
                        IN  [b EXCEPT !.notification_sent = FALSE]
                   ELSE LET a == ESP_DIAG_EVENT(s, "DOOR_ACTION")
                            b == esp_rmaker_param_update(a, door_status_param, "CLOSED")
                            c == esp_rmaker_param_update(b, alarm_trigger_param, FALSE)
                        IN  [c EXCEPT !.notification_sent = FALSE]
         IN  [s1 EXCEPT !.alerts_since_edge = 0]
    ELSE s

\* seeded fault: closing the door does not clear "Alarm Triggered"
DoorStateHandling_NoAlertClear(s, sensor_value) ==
    IF sensor_value # s.previous_sensor_state
    THEN LET s1 == IF sensor_value = 1
                   THEN LET a == ESP_DIAG_EVENT(s, "DOOR_ACTION")
                            b == esp_rmaker_param_update(a, door_status_param, "OPENED")
                        IN  [b EXCEPT !.notification_sent = FALSE]
                   ELSE LET a == ESP_DIAG_EVENT(s, "DOOR_ACTION")
                            b == esp_rmaker_param_update(a, door_status_param, "CLOSED")
                        IN  [b EXCEPT !.notification_sent = FALSE]
         IN  [s1 EXCEPT !.previous_sensor_state = sensor_value,
                        !.alerts_since_edge = 0]
    ELSE s

\* lines 153-174
DoorStateHandling(s, sensor_value) ==
    IF sensor_value # s.previous_sensor_state
    THEN LET s1 == IF sensor_value = 1
                   THEN LET a == ESP_DIAG_EVENT(s, "DOOR_ACTION")
                            b == esp_rmaker_param_update(a, door_status_param, "OPENED")
                        IN  [b EXCEPT !.notification_sent = FALSE]
                   ELSE LET a == ESP_DIAG_EVENT(s, "DOOR_ACTION")
                            b == esp_rmaker_param_update(a, door_status_param, "CLOSED")
                            c == esp_rmaker_param_update(b, alarm_trigger_param, FALSE)
                        IN  [c EXCEPT !.notification_sent = FALSE]
         IN  [s1 EXCEPT !.previous_sensor_state = sensor_value,
                        !.alerts_since_edge = 0]
    ELSE s

\* seeded fault: the latch is not set after the alert
Notify_NoLatch(s) ==
    IF ~s.notification_sent
    THEN LET s1 == esp_rmaker_raise_alert(s)
         IN  ESP_DIAG_EVENT(s1, "SECURITY_ALERT")
    ELSE s

\* seeded fault: the test of the latch is inverted
Notify_Inverted(s) ==
    IF s.notification_sent
    THEN LET s1 == esp_rmaker_raise_alert(s)
             s2 == ESP_DIAG_EVENT(s1, "SECURITY_ALERT")
         IN  [s2 EXCEPT !.notification_sent = TRUE]
    ELSE [s EXCEPT !.notification_sent = TRUE]

\* lines 193-197
Notify(s) ==
    IF ~s.notification_sent
    THEN LET s1 == esp_rmaker_raise_alert(s)
             s2 == ESP_DIAG_EVENT(s1, "SECURITY_ALERT")
         IN  [s2 EXCEPT !.notification_sent = TRUE]
    ELSE s

\* seeded fault: the blink does not put the LED back to led_state
ArmedDoorOpen_NoRestore(s) ==
    LET s1 == esp_rmaker_param_update(s, alarm_trigger_param, TRUE)
        s2 == gpio_set_level(s1, BUZZER_GPIO, 1, TRUE)
        s3 == gpio_set_level(s2, LED_GPIO, BoolToLevel(~s2.led_state), TRUE)
        s4 == vTaskDelay(s3, BlinkDelayMs)
        s5 == vTaskDelay(s4, BlinkDelayMs)
    IN  Notify(s5)

\* lines 181-198, ended by `continue`
ArmedDoorOpen(s) ==
    LET s1 == esp_rmaker_param_update(s, alarm_trigger_param, TRUE)
        s2 == gpio_set_level(s1, BUZZER_GPIO, 1, TRUE)
        s3 == gpio_set_level(s2, LED_GPIO, BoolToLevel(~s2.led_state), TRUE)
        s4 == vTaskDelay(s3, BlinkDelayMs)
        s5 == gpio_set_level(s4, LED_GPIO, BoolToLevel(s4.led_state), TRUE)
        s6 == vTaskDelay(s5, BlinkDelayMs)
    IN  Notify(s6)

\* seeded fault: the buzzer is left as it is when the door is closed
ArmedDoorClosed_BuzzerStays(s) ==
    gpio_set_level(s, LED_GPIO, BoolToLevel(s.led_state), TRUE)

\* lines 200-202
ArmedDoorClosed(s) ==
    LET s1 == gpio_set_level(s, BUZZER_GPIO, 0, TRUE)
    IN  gpio_set_level(s1, LED_GPIO, BoolToLevel(s1.led_state), TRUE)

\* seeded fault: the disarmed tick does not report the door as closed
AlarmOff_NoDoorPush(s) ==
    LET s1 == esp_rmaker_param_update(s, alarm_trigger_param, FALSE)
        s2 == gpio_set_level(s1, BUZZER_GPIO, 0, TRUE)
    IN  gpio_set_level(s2, LED_GPIO, BoolToLevel(s2.led_state), TRUE)

\* lines 208-215
AlarmOff(s) ==
    LET s1 == esp_rmaker_param_update(s, door_status_param, "CLOSED")
        s2 == esp_rmaker_param_update(s1, alarm_trigger_param, FALSE)
        s3 == gpio_set_level(s2, BUZZER_GPIO, 0, TRUE)
    IN  gpio_set_level(s3, LED_GPIO, BoolToLevel(s3.led_state), TRUE)

\* seeded fault: `continue` is missing, the loop's delay follows every branch
AlarmBehavior_NoContinue(s, sensor_value) ==
    IF s.alarm_enabled
    THEN IF sensor_value = 1
         THEN vTaskDelay(ArmedDoorOpen(s), LoopDelayMs)
         ELSE vTaskDelay(ArmedDoorClosed(s), LoopDelayMs)
    ELSE vTaskDelay(AlarmOff(s), LoopDelayMs)

\* lines 179-218: the branch taken, then the loop's delay unless `continue`
AlarmBehavior(s, sensor_value) ==
    IF s.alarm_enabled
    THEN IF sensor_value = 1
         THEN ArmedDoorOpen(s)
         ELSE vTaskDelay(ArmedDoorClosed(s), LoopDelayMs)
    ELSE vTaskDelay(AlarmOff(s), LoopDelayMs)

\* lines 148-218
ir_sensor_task(s, sensor_value) ==
    AlarmBehavior(DoorStateHandling(s, sensor_value), sensor_value)

----------------------------------------------------------------------------
(* Actions: a handler runs as one step *)

\* one iteration of the task's loop, the sensor reading v
Tick(v) ==
    LET s == ir_sensor_task(State, v)
    IN  /\ s.alerts_since_edge <= MaxAlerts
        /\ Commit(s)
        /\ op' = <<"tick", v>>
        /\ alerted_since_arm' =
              (alerted_since_arm \/ \E i \in 1..Len(s.effects) : s.effects[i] = <<"alert">>)
        /\ UNCHANGED conc_vars

\* a write request of the RainMaker agent
Write(dev_name, param_name, val, gpio_ok) ==
    /\ Commit(write_cb(State, dev_name, param_name, val, gpio_ok))
    /\ op' = <<"write", dev_name, param_name, val, gpio_ok>>
    /\ alerted_since_arm' =
          (alerted_since_arm /\ ~(alarm_enabled' /\ ~alarm_enabled))
    /\ UNCHANGED conc_vars

SchedulerTick == \E v \in {0, 1} : Tick(v)

RouterWrite ==
    \E d \in DevNames, p \in ParamNames, val \in BOOLEAN : Write(d, p, val, TRUE)

\* a Home Light write during which gpio_set_level reports an error
RouterWriteGpioFail == \E val \in BOOLEAN : Write(HomeLight, Power, val, FALSE)

Next == SchedulerTick \/ RouterWrite

Spec == Init /\ [][Next]_vars

NextGpioFail == SchedulerTick \/ RouterWrite \/ RouterWriteGpioFail

SpecGpioFail == Init /\ [][NextGpioFail]_vars

----------------------------------------------------------------------------
(* Statement by statement: write_cb runs on the RainMaker agent's task,    *)
(* ir_sensor_task on its own, with no lock between them.  A step is one    *)
(* statement of either; task_pc and cb_pc hold the source line of the      *)
(* statement that runs next, and `effects` the outside calls of the step   *)
(* taken last.                                                             *)

ConcState ==
    [task_pc |-> task_pc, sensor_reading |-> sensor_reading,
     cb_pc |-> cb_pc, cb_val |-> cb_val] @@ State

Goto(s, line) == [s EXCEPT !.task_pc = line]

CbGoto(s, line) == [s EXCEPT !.cb_pc = line]

\* lines 153-173, one statement each
DoorStateHandlingStep(s) ==
    CASE s.task_pc = 153 ->
            IF s.sensor_reading # s.previous_sensor_state
            THEN Goto(s, IF s.sensor_reading = 1 THEN 156 ELSE 163)
            ELSE Goto(s, 179)
      [] s.task_pc = 156 -> Goto(ESP_DIAG_EVENT(s, "DOOR_ACTION"), 158)
      [] s.task_pc = 158 ->
            Goto(esp_rmaker_param_update(s, door_status_param, "OPENED"), 160)
      [] s.task_pc = 160 -> Goto([s EXCEPT !.notification_sent = FALSE], 173)
      [] s.task_pc = 163 -> Goto(ESP_DIAG_EVENT(s, "DOOR_ACTION"), 165)
      [] s.task_pc = 165 ->
            Goto(esp_rmaker_param_update(s, door_status_param, "CLOSED"), 168)
      [] s.task_pc = 168 ->
            Goto(esp_rmaker_param_update(s, alarm_trigger_param, FALSE), 170)
      [] s.task_pc = 170 -> Goto([s EXCEPT !.notification_sent = FALSE], 173)
      [] s.task_pc = 173 ->
            Goto([s EXCEPT !.previous_sensor_state = s.sensor_reading,
                           !.alerts_since_edge = 0], 179)

\* seeded fault: the armed branch leaves the buzzer on when the door is closed
ArmedStep_BuzzerStays(s) ==
    CASE s.task_pc = 183 ->
            Goto(esp_rmaker_param_update(s, alarm_trigger_param, TRUE), 187)
      [] s.task_pc = 187 -> Goto(gpio_set_level(s, BUZZER_GPIO, 1, TRUE), 188)
      [] s.task_pc = 188 ->
            Goto(gpio_set_level(s, LED_GPIO, BoolToLevel(~s.led_state), TRUE), 189)
      [] s.task_pc = 189 -> Goto(vTaskDelay(s, BlinkDelayMs), 190)
      [] s.task_pc = 190 ->
            Goto(gpio_set_level(s, LED_GPIO, BoolToLevel(s.led_state), TRUE), 191)
      [] s.task_pc = 191 -> Goto(vTaskDelay(s, BlinkDelayMs), 193)
      [] s.task_pc = 193 -> Goto(s, IF ~s.notification_sent THEN 194 ELSE 148)
      [] s.task_pc = 194 -> Goto(esp_rmaker_raise_alert(s), 195)
      [] s.task_pc = 195 -> Goto(ESP_DIAG_EVENT(s, "SECURITY_ALERT"), 196)
      [] s.task_pc = 196 -> Goto([s EXCEPT !.notification_sent = TRUE], 148)
      [] s.task_pc = 201 -> Goto(s, 202)
      [] s.task_pc = 202 ->
            Goto(gpio_set_level(s, LED_GPIO, BoolToLevel(s.led_state), TRUE), 218)

\* lines 183-202, one statement each; `continue` leads back to line 148
ArmedStep(s) ==
    CASE s.task_pc = 183 ->
            Goto(esp_rmaker_param_update(s, alarm_trigger_param, TRUE), 187)
      [] s.task_pc = 187 -> Goto(gpio_set_level(s, BUZZER_GPIO, 1, TRUE), 188)
      [] s.task_pc = 188 ->
            Goto(gpio_set_level(s, LED_GPIO, BoolToLevel(~s.led_state), TRUE), 189)
      [] s.task_pc = 189 -> Goto(vTaskDelay(s, BlinkDelayMs), 190)
      [] s.task_pc = 190 ->
            Goto(gpio_set_level(s, LED_GPIO, BoolToLevel(s.led_state), TRUE), 191)
      [] s.task_pc = 191 -> Goto(vTaskDelay(s, BlinkDelayMs), 193)
      [] s.task_pc = 193 -> Goto(s, IF ~s.notification_sent THEN 194 ELSE 148)
      [] s.task_pc = 194 -> Goto(esp_rmaker_raise_alert(s), 195)
      [] s.task_pc = 195 -> Goto(ESP_DIAG_EVENT(s, "SECURITY_ALERT"), 196)
      [] s.task_pc = 196 -> Goto([s EXCEPT !.notification_sent = TRUE], 148)
      [] s.task_pc = 201 -> Goto(gpio_set_level(s, BUZZER_GPIO, 0, TRUE), 202)
      [] s.task_pc = 202 ->
            Goto(gpio_set_level(s, LED_GPIO, BoolToLevel(s.led_state), TRUE), 218)

\* lines 209-215, one statement each
AlarmOffStep(s) ==
    CASE s.task_pc = 209 ->
            Goto(esp_rmaker_param_update(s, door_status_param, "CLOSED"), 212)
      [] s.task_pc = 212 ->
            Goto(esp_rmaker_param_update(s, alarm_trigger_param, FALSE), 214)
      [] s.task_pc = 214 -> Goto(gpio_set_level(s, BUZZER_GPIO, 0, TRUE), 215)
      [] s.task_pc = 215 ->
            Goto(gpio_set_level(s, LED_GPIO, BoolToLevel(s.led_state), TRUE), 218)

\* the statement of ir_sensor_task at task_pc; v is what gpio_get_level
\* returns if that statement is line 148
TaskStep(s, v) ==
    CASE s.task_pc = 148 -> Goto([s EXCEPT !.sensor_reading = v], 153)
      [] s.task_pc \in 153..173 -> DoorStateHandlingStep(s)
      [] s.task_pc = 179 ->
            IF s.alarm_enabled
            THEN Goto(s, IF s.sensor_reading = 1 THEN 183 ELSE 201)
            ELSE Goto(s, 209)
      [] s.task_pc \in 183..202 -> ArmedStep(s)
      [] s.task_pc \in 209..215 -> AlarmOffStep(s)
      [] s.task_pc = 218 -> Goto(vTaskDelay(s, LoopDelayMs), 148)

\* lines 97-112 and 134: write_cb is entered and takes its branch
CbEnter(s, dev_name, param_name, val) ==
    LET s1 == [s EXCEPT !.cb_val = val]
    IN  IF IsHomeLightPower(dev_name, param_name) THEN CbGoto(s1, 78)
        ELSE IF IsAlarmSystemPower(dev_name, param_name) THEN CbGoto(s1, 113)
        ELSE [s1 EXCEPT !.ret = ESP_OK]

\* the statement of write_cb (and of app_driver_set_gpio, which it calls) at
\* cb_pc; pc 0 is the return
CbStep(s) ==
    CASE s.cb_pc = 78 ->
            CbGoto(gpio_set_level(s, LED_GPIO, BoolToLevel(s.cb_val), TRUE), 79)
      [] s.cb_pc = 79 -> CbGoto([s EXCEPT !.led_state = s.cb_val], 81)
      [] s.cb_pc = 81 -> CbGoto(ESP_DIAG_EVENT(s, "LIGHT_ACTION"), 104)
      [] s.cb_pc = 104 ->
            CbGoto([esp_rmaker_param_update(s, LightPower, s.cb_val)
                       EXCEPT !.ret = ESP_OK], 0)
      [] s.cb_pc = 113 -> CbGoto([s EXCEPT !.alarm_enabled = s.cb_val], 115)
      [] s.cb_pc = 115 -> CbGoto(ESP_DIAG_EVENT(s, "ALARM_ACTION"), 117)
      [] s.cb_pc = 117 -> CbGoto(s, IF ~s.alarm_enabled THEN 120 ELSE 130)
      [] s.cb_pc = 120 ->
            CbGoto(esp_rmaker_param_update(s, door_status_param, "CLOSED"), 123)
      [] s.cb_pc = 123 ->
            CbGoto(esp_rmaker_param_update(s, alarm_trigger_param, FALSE), 125)
      [] s.cb_pc = 125 -> CbGoto(gpio_set_level(s, BUZZER_GPIO, 0, TRUE), 127)
      [] s.cb_pc = 127 ->
            CbGoto(gpio_set_level(s, LED_GPIO, BoolToLevel(s.led_state), TRUE), 130)
      [] s.cb_pc = 130 ->
            CbGoto([esp_rmaker_param_update(s, AlarmPower, s.cb_val)
                       EXCEPT !.ret = ESP_OK], 0)

\* what the end of an iteration should leave: the LED at led_state, the
\* buzzer and "Alarm Triggered" on exactly when armed and the door read open
OutputsSettled(s) ==
    /\ s.led_level = BoolToLevel(s.led_state)
    /\ s.buzzer_level = 1 <=> (s.alarm_enabled /\ s.sensor_reading = 1)
    /\ s.sink[alarm_trigger_param] = TRUE <=> (s.alarm_enabled /\ s.sensor_reading = 1)

CommitConc(s) ==
    /\ Commit(s)
    /\ task_pc' = s.task_pc
    /\ sensor_reading' = s.sensor_reading
    /\ cb_pc' = s.cb_pc
    /\ cb_val' = s.cb_val
    /\ alerted_since_arm' =
          IF s.effects = << <<"alert">> >> THEN TRUE
          ELSE alerted_since_arm /\ ~(s.alarm_enabled /\ ~alarm_enabled)

\* ir_sensor_task runs its next statement
TaskStatement ==
    \E v \in {0, 1} :
        LET s == TaskStep(ConcState, v)
        IN  /\ s.alerts_since_edge <= MaxAlerts
            /\ CommitConc(s)
            /\ op' = <<"task", task_pc>>
            /\ clean' = IF task_pc = 148 THEN cb_pc = 0 ELSE clean
            /\ tick_end_wrong' =
                  (tick_end_wrong \/ (s.task_pc = 148 /\ ~OutputsSettled(s)))

\* the agent calls write_cb; it runs one call at a time
WriteEnter ==
    /\ cb_pc = 0
    /\ \E d \in DevNames, p \in ParamNames, val \in BOOLEAN :
          /\ CommitConc(CbEnter(ConcState, d, p, val))
          /\ op' = <<"write", d, p, val, TRUE>>
    /\ clean' = FALSE
    /\ UNCHANGED tick_end_wrong

\* write_cb runs its next statement
WriteStatement ==
    /\ cb_pc # 0
    /\ CommitConc(CbStep(ConcState))
    /\ op' = <<"cb", cb_pc>>
    /\ clean' = FALSE
    /\ UNCHANGED tick_end_wrong

NextConc == TaskStatement \/ WriteEnter \/ WriteStatement

SpecConc == Init /\ [][NextConc]_vars

----------------------------------------------------------------------------
(* Vocabulary of the properties *)

OPEN == 1
CLOSED == 0

IsTick(o) == o[1] = "tick"

IsTickOf(o, v) == o[1] = "tick" /\ o[2] = v

IsWrite(o) == o[1] = "write"

IsWriteOf(o, d, p, val) == o[1] = "write" /\ o[2] = d /\ o[3] = p /\ o[4] = val

IsDisarmWrite(o) == IsWriteOf(o, AlarmSystem, Power, FALSE)

IsArmWrite(o) == IsWriteOf(o, AlarmSystem, Power, TRUE)

\* a Home Light write, by the outcome of its GPIO write
IsLightWrite(o, val, gpio_ok) ==
    IsWriteOf(o, HomeLight, Power, val) /\ o[5] = gpio_ok

\* a write that one of the two branches of write_cb handles
Recognized(o) ==
    IsWrite(o) /\ o[3] = Power /\ o[2] \in {HomeLight, AlarmSystem}

Pushes(es) == SelectSeq(es, LAMBDA e : e[1] = "push")

Delays(es) == SelectSeq(es, LAMBDA e : e[1] = "delay")

Alerts(es) == SelectSeq(es, LAMBDA e : e[1] = "alert")

\* the last n elements of a sequence
Tail_n(es, n) == SubSeq(es, Len(es) - n + 1, Len(es))

----------------------------------------------------------------------------
(* C1: in every reachable state, if the value pushed last to "Alarm        *)
(* Triggered" is true, then alarm_enabled is true and the stored door      *)
(* state is OPEN.                                                          *)

C1_AlertImpliesArmedAndOpen ==
    sink[alarm_trigger_param] = TRUE
        => alarm_enabled /\ previous_sensor_state = OPEN

\* an armed tick that read the door open has reported the alert
C1_Witness ==
    /\ IsTickOf(op, 1)
    /\ sink[alarm_trigger_param] = TRUE
    /\ buzzer_level = 1

----------------------------------------------------------------------------
(* C2: an (Alarm System, Power, false) write pushes Door Status "CLOSED"   *)
(* and Alarm Triggered false, sets the buzzer line to 0 and the LED line   *)
(* to led_state, all before it pushes the Alarm System Power echo, from    *)
(* any prior state; led_state is not changed.                              *)

C2_DisarmWriteResets ==
    [][IsDisarmWrite(op') =>
          /\ effects' = << <<"diag", "ALARM_ACTION">>,
                           <<"push", door_status_param, "CLOSED">>,
                           <<"push", alarm_trigger_param, FALSE>>,
                           <<"gpio", BUZZER_GPIO, 0>>,
                           <<"gpio", LED_GPIO, BoolToLevel(led_state)>>,
                           <<"push", AlarmPower, FALSE>> >>
          /\ sink'[door_status_param] = "CLOSED"
          /\ sink'[alarm_trigger_param] = FALSE
          /\ buzzer_level' = 0
          /\ led_level' = BoolToLevel(led_state)
          /\ led_state' = led_state
          /\ ret' = ESP_OK]_vars

\* a disarm write with the light commanded on, the door stored as open and
\* the alert of this episode already raised
C2_Witness ==
    /\ IsDisarmWrite(op)
    /\ led_state
    /\ previous_sensor_state = OPEN
    /\ notification_sent

----------------------------------------------------------------------------
(* C3: notification_sent is set to false on every tick whose sensor        *)
(* reading differs from the stored door state, and between two consecutive *)
(* such transitions raise_alert is called at most once, however many armed *)
(* ticks see the door open and however often the alarm is disarmed and     *)
(* armed again.                                                            *)

C3_OneAlertPerTransition ==
    [][/\ alerts_since_edge' <= 1
       /\ \A v \in {0, 1} :
            IsTickOf(op', v) /\ v # previous_sensor_state =>
               /\ DoorStateHandling(State, v).notification_sent = FALSE
               /\ notification_sent' => Len(Alerts(effects')) = 1
               /\ alerts_since_edge' = Len(Alerts(effects'))]_vars

\* an armed tick sees the door open and raises nothing: the alert of this
\* episode was raised before, and the alarm was disarmed (Door Status still
\* reads "CLOSED" from that reset) and armed again since
C3_Witness ==
    /\ IsTickOf(op, 1)
    /\ alarm_enabled
    /\ alerts_since_edge = 1
    /\ Alerts(effects) = <<>>
    /\ sink[door_status_param] = "CLOSED"

----------------------------------------------------------------------------
(* C4 as stated: notification_sent is true only while alarm_enabled is     *)
(* true and the stored door state is OPEN.                                 *)

C4_Original ==
    notification_sent => alarm_enabled /\ previous_sensor_state = OPEN

(* C4 as amended: notification_sent is true only while the stored door     *)
(* state is OPEN; no write, a disarm write included, changes it.           *)

C4_LatchOnlyWhileOpen ==
    [][/\ notification_sent' => previous_sensor_state' = OPEN
       /\ IsWrite(op') => notification_sent' = notification_sent]_vars

\* the alarm has just been disarmed and the latch is still set
C4_Witness ==
    /\ IsDisarmWrite(op)
    /\ notification_sent
    /\ ~alarm_enabled

----------------------------------------------------------------------------
(* C5: when a (Home Light, Power, v) write is handled and the GPIO write   *)
(* to the light line fails, led_state keeps its value, no Light Power      *)
(* value is pushed and the failure is logged; only when the GPIO write     *)
(* succeeds is led_state set to v and v echoed.                            *)

C5_GpioFailureNotEchoed ==
    [][\A val \in BOOLEAN :
         /\ IsLightWrite(op', val, FALSE) =>
               /\ led_state' = led_state
               /\ Pushes(effects') = <<>>
               /\ sink' = sink
               /\ \E i \in 1..Len(effects') : effects'[i][1] = "logw"
         /\ IsLightWrite(op', val, TRUE) =>
               /\ led_state' = val
               /\ Pushes(effects') = << <<"push", LightPower, val>> >>]_vars

----------------------------------------------------------------------------
(* C6: a write whose (device, parameter) names are neither ("Home Light",  *)
(* "Power") nor ("Alarm System", "Power") returns success, makes no call   *)
(* to the outside and leaves alarm_enabled, led_state, both lines and all  *)
(* four parameters unchanged; write_cb returns success for every input.    *)

C6_UnrecognizedWriteIsNoOp ==
    [][IsWrite(op') =>
          /\ ret' = ESP_OK
          /\ ~Recognized(op') =>
                /\ effects' = <<>>
                /\ UNCHANGED <<alarm_enabled, led_state, led_level, buzzer_level,
                               sink, previous_sensor_state, notification_sent>>]_vars

\* a ("Door Sensor Status", "Power") write arrived while the alarm was armed
\* and sounding
C6_Witness ==
    /\ IsWriteOf(op, DoorSensorStatus, Power, FALSE)
    /\ alarm_enabled
    /\ buzzer_level = 1
    /\ sink[alarm_trigger_param] = TRUE

----------------------------------------------------------------------------
(* C7: every tick executed while alarm_enabled is false ends, for either   *)
(* reading and any stored door state, with Door Status "CLOSED" and Alarm  *)
(* Triggered false pushed last, the buzzer line 0 and the LED line at      *)
(* led_state; the reset is made by every such tick.                        *)

C7_DisarmedTickResets ==
    IsTick(op) /\ ~alarm_enabled =>
        /\ sink[door_status_param] = "CLOSED"
        /\ sink[alarm_trigger_param] = FALSE
        /\ buzzer_level = 0
        /\ led_level = BoolToLevel(led_state)
        /\ Len(effects) >= 5
        /\ Tail_n(effects, 5) = << <<"push", door_status_param, "CLOSED">>,
                                   <<"push", alarm_trigger_param, FALSE>>,
                                   <<"gpio", BUZZER_GPIO, 0>>,
                                   <<"gpio", LED_GPIO, BoolToLevel(led_state)>>,
                                   <<"delay", LoopDelayMs>> >>

\* a disarmed tick in which the door was found newly opened, the light on
C7_Witness ==
    /\ IsTickOf(op, 1)
    /\ ~alarm_enabled
    /\ led_state
    /\ effects[2] = <<"push", door_status_param, "OPENED">>

----------------------------------------------------------------------------
(* C8: a second tick with alarm_enabled false and the same reading, run    *)
(* right after the first, leaves led_state, alarm_enabled, the stored door *)
(* state, notification_sent, both lines and every parameter as the first   *)
(* left them; it raises no alert and pushes only Door Status "CLOSED" and  *)
(* Alarm Triggered false.                                                  *)

C8_DisarmedTickIdempotent ==
    IsTick(op) /\ ~alarm_enabled =>
        LET second == ir_sensor_task(State, op[2])
        IN  /\ second.led_state = led_state
            /\ second.alarm_enabled = alarm_enabled
            /\ second.previous_sensor_state = previous_sensor_state
            /\ second.notification_sent = notification_sent
            /\ second.led_level = led_level
            /\ second.buzzer_level = buzzer_level
            /\ second.sink = sink
            /\ Alerts(second.effects) = <<>>
            /\ Pushes(second.effects) = << <<"push", door_status_param, "CLOSED">>,
                                           <<"push", alarm_trigger_param, FALSE>> >>

\* the first disarmed tick found the door newly opened and pushed "OPENED"
\* before the reset
C8_Witness ==
    /\ IsTickOf(op, 1)
    /\ ~alarm_enabled
    /\ Len(Pushes(effects)) = 3

----------------------------------------------------------------------------
(* C9: an iteration of the task's loop that finds the alarm armed and the  *)
(* door open runs the two 150 ms delays and no 200 ms delay; any other     *)
(* iteration runs no 150 ms delay and ends with exactly one 200 ms delay.  *)
(* The loop never exits: another iteration can always follow.              *)

C9_DelayPerIteration ==
    /\ ENABLED SchedulerTick
    /\ IsTick(op) =>
          IF alarm_enabled /\ op[2] = 1
          THEN /\ Delays(effects) = << <<"delay", BlinkDelayMs>>,
                                       <<"delay", BlinkDelayMs>> >>
               /\ effects[Len(effects)] # <<"delay", LoopDelayMs>>
          ELSE /\ Delays(effects) = << <<"delay", LoopDelayMs>> >>
               /\ effects[Len(effects)] = <<"delay", LoopDelayMs>>

\* an armed tick with the door open that also raised the alert
C9_Witness ==
    /\ IsTickOf(op, 1)
    /\ alarm_enabled
    /\ Len(Alerts(effects)) = 1
    /\ Len(Delays(effects)) = 2

----------------------------------------------------------------------------
(* C10: led_state changes only in a (Home Light, Power) write and          *)
(* alarm_enabled only in an (Alarm System, Power) write; no tick changes   *)
(* either.  An (Alarm System, Power, true) write changes alarm_enabled and *)
(* the Alarm Power parameter and nothing else: no Door Status or Alarm     *)
(* Triggered push, no GPIO write, the stored door state and                *)
(* notification_sent untouched.                                            *)

C10_FlagFrame ==
    [][/\ led_state' # led_state =>
             IsWrite(op') /\ op'[2] = HomeLight /\ op'[3] = Power
       /\ alarm_enabled' # alarm_enabled =>
             IsWrite(op') /\ op'[2] = AlarmSystem /\ op'[3] = Power
       /\ IsTick(op') => UNCHANGED <<led_state, alarm_enabled>>
       /\ IsArmWrite(op') =>
             /\ alarm_enabled' = TRUE
             /\ sink' = [sink EXCEPT ![AlarmPower] = TRUE]
             /\ effects' = << <<"diag", "ALARM_ACTION">>,
                              <<"push", AlarmPower, TRUE>> >>
             /\ UNCHANGED <<led_state, led_level, buzzer_level,
                            previous_sensor_state, notification_sent>>]_vars

\* the alarm was armed while the door was stored as open and Door Status
\* read "CLOSED"
C10_Witness ==
    /\ IsArmWrite(op)
    /\ previous_sensor_state = OPEN
    /\ sink[door_status_param] = "CLOSED"
    /\ led_state

----------------------------------------------------------------------------
(* C11: the stored door state starts as UNKNOWN, is changed only by a      *)
(* tick and never returns to UNKNOWN.  A tick whose reading differs from   *)
(* the stored state stores the reading and pushes the matching Door Status *)
(* ("OPENED" for 1, "CLOSED" for 0), and Alarm Triggered false as well on  *)
(* a transition to CLOSED; on a tick whose reading equals the stored state *)
(* the edge detection pushes nothing and leaves notification_sent as it    *)
(* was.                                                                    *)

C11_EdgeDetection ==
    /\ previous_sensor_state = UNKNOWN
    /\ [][/\ previous_sensor_state' # previous_sensor_state => IsTick(op')
          /\ previous_sensor_state' = UNKNOWN => previous_sensor_state = UNKNOWN
          /\ \A v \in {0, 1} :
               IsTickOf(op', v) =>
                  LET e == DoorStateHandling(State, v)
                      n == Len(e.effects)
                  IN  /\ previous_sensor_state' = v
                      /\ n <= Len(effects') /\ SubSeq(effects', 1, n) = e.effects
                      /\ IF v # previous_sensor_state
                         THEN Pushes(e.effects) =
                                IF v = 1
                                THEN << <<"push", door_status_param, "OPENED">> >>
                                ELSE << <<"push", door_status_param, "CLOSED">>,
                                        <<"push", alarm_trigger_param, FALSE>> >>
                         ELSE /\ e.effects = <<>>
                              /\ e.notification_sent = notification_sent]_vars

\* the first tick: the stored state was UNKNOWN, the door is found closed
C11_Witness ==
    /\ IsTickOf(op, 0)
    /\ previous_sensor_state = CLOSED
    /\ Len(Pushes(effects)) = 4

----------------------------------------------------------------------------
(* C12: with no write interleaved, every tick with alarm_enabled true and  *)
(* reading 1 pushes Alarm Triggered true, sets the buzzer line to 1, sets  *)
(* the LED line to the inverse of led_state and then back to led_state,    *)
(* and ends with notification_sent true, raising an alert in that tick     *)
(* exactly when notification_sent was false after the edge detection       *)
(* (also when the alarm was armed with the door already open); every tick  *)
(* with alarm_enabled true and reading 0 ends with buzzer line 0 and LED   *)
(* line at led_state and raises no alert.                                  *)

C12_ArmedTickOutputs ==
    [][/\ IsTickOf(op', 1) /\ alarm_enabled =>
             LET e == DoorStateHandling(State, 1)
                 n == Len(e.effects)
                 rest == SubSeq(effects', n + 1, Len(effects'))
                 blink == << <<"push", alarm_trigger_param, TRUE>>,
                             <<"gpio", BUZZER_GPIO, 1>>,
                             <<"gpio", LED_GPIO, BoolToLevel(~led_state)>>,
                             <<"delay", BlinkDelayMs>>,
                             <<"gpio", LED_GPIO, BoolToLevel(led_state)>>,
                             <<"delay", BlinkDelayMs>> >>
             IN  /\ Len(rest) >= 6 /\ SubSeq(rest, 1, 6) = blink
                 /\ sink'[alarm_trigger_param] = TRUE
                 /\ buzzer_level' = 1
                 /\ led_level' = BoolToLevel(led_state)
                 /\ notification_sent' = TRUE
                 /\ Len(Alerts(effects')) = IF e.notification_sent THEN 0 ELSE 1
       /\ IsTickOf(op', 0) /\ alarm_enabled =>
             /\ buzzer_level' = 0
             /\ led_level' = BoolToLevel(led_state)
             /\ Alerts(effects') = <<>>]_vars

\* an armed tick finds the door open without a transition (the alarm was
\* armed with the door already open) and raises the alert, the light on
C12_Witness ==
    /\ IsTickOf(op, 1)
    /\ alarm_enabled
    /\ led_state
    /\ Len(Alerts(effects)) = 1
    /\ Pushes(effects) = << <<"push", alarm_trigger_param, TRUE>> >>

----------------------------------------------------------------------------
(* C16: whenever the value pushed last to Alarm Triggered is true, the     *)
(* value pushed last to Door Status is "OPENED"; at the end of every tick  *)
(* run while armed, the Door Status pushed last equals the stored door     *)
(* state, also when the alarm was armed with the door already open.        *)

DoorStatusOf(v) == IF v = OPEN THEN "OPENED" ELSE "CLOSED"

C16_AlertImpliesDoorOpened ==
    /\ sink[alarm_trigger_param] = TRUE => sink[door_status_param] = "OPENED"
    /\ IsTick(op) /\ alarm_enabled =>
          sink[door_status_param] = DoorStatusOf(previous_sensor_state)

----------------------------------------------------------------------------
(* C17 as stated: whenever a tick runs with alarm_enabled true and reading *)
(* 1, raise_alert has been called, by the end of that tick, at least once  *)
(* since the write that armed the alarm last.                              *)

C17_Original ==
    IsTickOf(op, 1) /\ alarm_enabled => alerted_since_arm

(* C17 as amended: whenever a tick runs with alarm_enabled true and        *)
(* reading 1, raise_alert has been called, by the end of that tick,        *)
(* exactly once since the tick that found the door opened; the call may    *)
(* precede the write that armed the alarm last.                            *)

C17_AlertedSinceDoorOpened ==
    IsTickOf(op, 1) /\ alarm_enabled =>
        /\ alerts_since_edge = 1
        /\ notification_sent
        /\ previous_sensor_state = OPEN

\* an armed tick with the door open, the only alert of this open episode
\* raised before the alarm was disarmed and armed again
C17_Witness ==
    /\ IsTickOf(op, 1)
    /\ alarm_enabled
    /\ ~alerted_since_arm
    /\ alerts_since_edge = 1

----------------------------------------------------------------------------
(* C18: at every tick boundary and after every write, the buzzer line is 1 *)
(* exactly when the value pushed last to Alarm Triggered is true, and the  *)
(* buzzer line is 1 only if alarm_enabled is true and the stored door      *)
(* state is OPEN.                                                          *)

C18_BuzzerAgreesWithAlert ==
    /\ buzzer_level = 1 <=> sink[alarm_trigger_param] = TRUE
    /\ buzzer_level = 1 => alarm_enabled /\ previous_sensor_state = OPEN

\* a light write arrives while the buzzer sounds
C18_Witness ==
    /\ IsWriteOf(op, HomeLight, Power, TRUE)
    /\ buzzer_level = 1
    /\ sink[alarm_trigger_param] = TRUE

----------------------------------------------------------------------------
(* C13: when writes interleave with a running tick at any statement        *)
(* boundary, then once the writes stop, the end of the first complete tick *)
(* that starts afterwards, and of every later one, has the LED line at     *)
(* led_state, the buzzer line at 1 exactly when alarm_enabled is true and  *)
(* that tick read the door open, and Alarm Triggered pushed last as true   *)
(* exactly when alarm_enabled is true and that tick read the door open.    *)

C13_SelfCorrecting ==
    task_pc = 148 /\ clean => OutputsSettled(ConcState)

\* a tick that no write disturbed has just ended, after an earlier tick that
\* writes had interleaved with ended with the outputs wrong
C13_Witness ==
    /\ task_pc = 148
    /\ clean
    /\ tick_end_wrong

----------------------------------------------------------------------------
(* C14: once an (Alarm System, Power, false) write has returned, and for   *)
(* as long as the alarm is not armed again, the buzzer line is 0 and the   *)
(* value pushed last to Alarm Triggered is false, for every interleaving   *)
(* of write_cb's statements with those of a tick already running.          *)
(* alarm_enabled is false with no write_cb call running only at boot or    *)
(* after such a write has returned.                                        *)

C14_DisarmInstantaneous ==
    cb_pc = 0 /\ ~alarm_enabled =>
        /\ buzzer_level = 0
        /\ sink[alarm_trigger_param] = FALSE

----------------------------------------------------------------------------
(* C15: for every interleaving of writes with the task, the alarm is armed *)
(* at the moment of each raise_alert call.                                 *)

C15_AlertOnlyWhileArmed ==
    effects = << <<"alert">> >> => alarm_enabled

====
